---- MODULE Spec2Model ----
(***************************************************************************)
(* A model of hxc_designer's fin-performance engine:                       *)
(*   heat_sink/hx_coefficients/hx_coefficients.py  (HxCoefficient, k_val)  *)
(*   heat_sink/heat_sink.py                        (the heat sink classes) *)
(*   heat_sink/hx_equations/hx_equations.py        (HeatTransferMixin)     *)
(*                                                                         *)
(* Python values are records tagged with their type in field t.  A number *)
(* carries in v a term: an exact rational [op |-> "q", q |-> <<n, d>>] or, *)
(* where the code calls sqrt, tanh, ln or iv on a value that has no        *)
(* rational result, the unevaluated application.  IEEE rounding is not     *)
(* modelled: a float is the exact number.  A string carries its text in s, *)
(* a list its elements in items, an object its attribute dictionary in v.  *)
(*                                                                         *)
(* A call's outcome is a record whose exc field names the exception that   *)
(* left the call ("None" when it returned).                                *)
(***************************************************************************)
EXTENDS Integers, Sequences, FiniteSets, TLC

\* inp:  the call the caller is about to make (its name and arguments)
\* hc:   the HxCoefficient object the caller holds (NoObj before it has one)
\* hs:   the heat sink object the caller holds (NoObj before it has one)
\* last: the outcome of the call made: the exception or the value returned
VARIABLES inp, hc, hs, last

vars == <<inp, hc, hs, last>>

(***************************************************************************)
(* Bounds of the model.                                                    *)
(***************************************************************************)
\* n_fins arguments range over 0..MaxNFins
MaxNFins == 3
\* length arguments range over -1..MaxLen steps of 0.0001
MaxLen == 4
\* temperatures range over 0..MaxTemp steps of 50 degrees
MaxTemp == 8

(***************************************************************************)
(* Exact rational arithmetic: <<n, d>> with d > 0 and gcd(n, d) = 1.       *)
(***************************************************************************)
Abs(i) == IF i < 0 THEN -i ELSE i

\* F(e) and F(e1, e2), with each argument evaluated once before F uses it
Let(e, F(_)) == CHOOSE y \in {F(v) : v \in {e}} : TRUE
Let2(e1, e2, F(_, _)) == CHOOSE y \in {F(v, w) : v \in {e1}, w \in {e2}} : TRUE

RECURSIVE GCD(_, _)
GCD(a, b) == IF b = 0 THEN a ELSE Let(a % b, LAMBDA r : GCD(b, r))

Norm(n, d) ==
    Let2(IF d < 0 THEN -1 ELSE 1, GCD(Abs(n), Abs(d)),
         LAMBDA s, g : <<(s * n) \div g, (s * d) \div g>>)

\* sums over the least common denominator, to keep the integers small
RAdd(x, y) ==
    Let(GCD(x[2], y[2]),
        LAMBDA g : Norm(x[1] * (y[2] \div g) + y[1] * (x[2] \div g),
                        (x[2] \div g) * y[2]))
RSub(x, y) == RAdd(x, <<-y[1], y[2]>>)
RMul(x, y) == Norm(x[1] * y[1], x[2] * y[2])
RDiv(x, y) == Norm(x[1] * y[2], x[2] * y[1])
RLt(x, y) == x[1] * y[2] < y[1] * x[2]
RLe(x, y) == x[1] * y[2] <= y[1] * x[2]

\* the largest r in lo..hi with r * r <= n
RECURSIVE SqrtSearch(_, _, _)
SqrtSearch(n, lo, hi) ==
    IF lo >= hi THEN lo
    ELSE Let((lo + hi + 1) \div 2,
             LAMBDA mid : IF mid * mid <= n THEN SqrtSearch(n, mid, hi)
                          ELSE SqrtSearch(n, lo, mid - 1))

\* the integer square root of a perfect square, -1 otherwise (roots are
\* searched up to 46340, the largest whose square is a 32-bit integer)
ISqrt(n) ==
    IF n < 0 THEN -1
    ELSE Let(SqrtSearch(n, 0, IF n < 46340 THEN n ELSE 46340),
             LAMBDA r : IF r * r = n THEN r ELSE -1)

(***************************************************************************)
(* Terms: the numbers the code computes.                                   *)
(***************************************************************************)
Q(n, d) == [op |-> "q", q |-> Norm(n, d)]
IsQ(x) == x.op = "q"
TAdd(x, y) == IF IsQ(x) /\ IsQ(y) THEN [op |-> "q", q |-> RAdd(x.q, y.q)]
              ELSE [op |-> "add", a |-> x, b |-> y]
TSub(x, y) == IF IsQ(x) /\ IsQ(y) THEN [op |-> "q", q |-> RSub(x.q, y.q)]
              ELSE [op |-> "sub", a |-> x, b |-> y]
TMul(x, y) == IF IsQ(x) /\ IsQ(y) THEN [op |-> "q", q |-> RMul(x.q, y.q)]
              ELSE [op |-> "mul", a |-> x, b |-> y]
TDiv(x, y) == IF IsQ(x) /\ IsQ(y) THEN [op |-> "q", q |-> RDiv(x.q, y.q)]
              ELSE [op |-> "div", a |-> x, b |-> y]
\* math.sqrt
TSqrt(x) ==
    IF ~IsQ(x) THEN [op |-> "sqrt", a |-> x]
    ELSE Let2(ISqrt(x.q[1]), ISqrt(x.q[2]),
              LAMBDA n, d : IF n >= 0 /\ d >= 0 THEN Q(n, d)
                            ELSE [op |-> "sqrt", a |-> x])
\* math.tanh, math.log, scipy.special.iv
TTanh(x) == [op |-> "tanh", a |-> x]
TLn(x) == [op |-> "ln", a |-> x]
TIv(n, x) == [op |-> "iv", n |-> n, a |-> x]

(***************************************************************************)
(* Python values.                                                          *)
(***************************************************************************)
PyInt(i) == [t |-> "int", v |-> Q(i, 1)]
PyFloat(n, d) == [t |-> "float", v |-> Q(n, d)]
PyFloatT(x) == [t |-> "float", v |-> x]
PyStr(s) == [t |-> "str", s |-> s]
PyNone == [t |-> "NoneType"]
PyObj(cls, attrs) == [t |-> "object", cls |-> cls, v |-> attrs]
PyMethod(name) == [t |-> "method", s |-> name]
PyType(name) == [t |-> "type", s |-> name]
PyList(xs) == [t |-> "list", items |-> xs]
PyDict(d) == [t |-> "dict", d |-> d]

IsNum(x) == x.t \in {"int", "float"}
\* bool(x): a number is true when nonzero, a string when nonempty
Truthy(x) ==
    CASE x.t \in {"int", "float"} -> x.v # Q(0, 1)
      [] x.t = "str" -> x.s # ""
      [] x.t = "NoneType" -> FALSE
      [] OTHER -> TRUE
\* x > 0 and x <= 0 on numbers (both false of a value that is no rational)
Gt0(x) == IsNum(x) /\ IsQ(x.v) /\ RLt(<<0, 1>>, x.v.q)
Le0(x) == IsNum(x) /\ IsQ(x.v) /\ RLe(x.v.q, <<0, 1>>)

\* the strings float() parses, with their values
NumericStrings == {"200"}
StrValue(s) == CASE s = "200" -> Q(200, 1) [] OTHER -> Q(0, 1)
\* float(x) succeeds on numbers and on numeric strings
CanFloat(x) == IsNum(x) \/ (x.t = "str" /\ x.s \in NumericStrings)
ToFloat(x) == IF x.t = "str" THEN PyFloatT(StrValue(x.s)) ELSE PyFloatT(x.v)

Raise(e) == [exc |-> e, obj |-> PyNone]
Return(o) == [exc |-> "None", obj |-> o]

(***************************************************************************)
(* hx_coefficients.py: the material table and k_val.                       *)
(***************************************************************************)
\* data/k_values_common.csv: per material, the (T, k) rows in ascending T
MatlTable ==
    [Copper |-> <<<<0, 400>>, <<100, 390>>, <<200, 385>>>>,
     Steel |-> <<<<0, 60>>, <<100, 40>>>>,
     Brass |-> <<<<20, 110>>>>]

matl_names == DOMAIN MatlTable

\* numpy.searchsorted(x, v) clipped to 1..len-1, as interp1d does (1-based)
SegmentOf(rows, temp) ==
    LET below == Cardinality({i \in 1..Len(rows) : RLt(<<rows[i][1], 1>>, temp)})
        idx == IF below < 1 THEN 1
               ELSE IF below > Len(rows) - 1 THEN Len(rows) - 1 ELSE below
    IN  idx

\* an interp1d that holds the edge values outside the table instead of
\* extrapolating
InterpClamped(rows, temp) ==
    LET lo == rows[SegmentOf(rows, temp)]
        hi == rows[SegmentOf(rows, temp) + 1]
        x == IF RLt(temp, <<lo[1], 1>>) THEN <<lo[1], 1>>
             ELSE IF RLt(<<hi[1], 1>>, temp) THEN <<hi[1], 1>> ELSE temp
        slope == RDiv(<<hi[2] - lo[2], 1>>, <<hi[1] - lo[1], 1>>)
    IN  RAdd(RMul(slope, RSub(x, <<lo[1], 1>>)), <<lo[2], 1>>)

\* interp1d(x, y, bounds_error=False, fill_value="extrapolate")(temp)
Interp(rows, temp) ==
    LET lo == rows[SegmentOf(rows, temp)]
        hi == rows[SegmentOf(rows, temp) + 1]
        slope == RDiv(<<hi[2] - lo[2], 1>>, <<hi[1] - lo[1], 1>>)
    IN  RAdd(RMul(slope, RSub(temp, <<lo[1], 1>>)), <<lo[2], 1>>)

\* __MaterialProperties.k_val(matl, temp); temp is a number
k_val(matl, temp) ==
    IF ~(matl.t = "str" /\ matl.s \in matl_names) THEN Raise("KeyError")
    ELSE LET rows == MatlTable[matl.s]
         IN  IF Len(rows) = 1
             THEN Return(PyFloat(rows[1][2], 1))
             ELSE Return(PyFloatT([op |-> "q", q |-> Interp(rows, temp.v.q)]))

(***************************************************************************)
(* hx_coefficients.py: HxCoefficient.__init__                              *)
(***************************************************************************)
\* the k branch of __init__: the exception raised, or the value stored in self.k
\* (Absent: neither k <= 0 nor k > 0 held, and self.k was not assigned)
Absent == [t |-> "absent"]
ResolveK(k, matl, temp) ==
    IF ~IsNum(k) THEN Raise("TypeError")
    ELSE IF Le0(k)
         THEN IF Truthy(matl) /\ Truthy(temp)
              THEN k_val(matl, temp)
              ELSE Raise("ValueError")
         ELSE IF Gt0(k) THEN Return(k)
         ELSE Return(Absent)

\* the h branch of __init__
ResolveH(h) ==
    IF ~IsNum(h) THEN Raise("TypeError")
    ELSE IF Le0(h) THEN Raise("ValueError")
    ELSE Return(h)

HxCoefficient__init__(k0, h0, matl, temp0) ==
    IF \/ Truthy(k0) /\ ~CanFloat(k0)
       \/ Truthy(h0) /\ ~CanFloat(h0)
       \/ Truthy(temp0) /\ ~CanFloat(temp0)
    THEN Raise("TypeError")
    ELSE LET k == IF Truthy(k0) THEN ToFloat(k0) ELSE k0
             h == IF Truthy(h0) THEN ToFloat(h0) ELSE h0
             temp == IF Truthy(temp0) THEN ToFloat(temp0) ELSE temp0
             rk == ResolveK(k, matl, temp)
             rh == ResolveH(h)
         IN  IF rk.exc # "None" THEN Raise(rk.exc)
             ELSE IF rh.exc # "None" THEN Raise(rh.exc)
             ELSE IF rk.obj = Absent
             THEN Return(PyObj("HxCoefficient",
                               [h |-> rh.obj, matl |-> matl, temp |-> temp]))
             ELSE Return(PyObj("HxCoefficient",
                               [k |-> rk.obj, h |-> rh.obj,
                                matl |-> matl, temp |-> temp]))



(***************************************************************************)
(* Constructing a coefficient object: the arguments and the call.          *)
(***************************************************************************)
\* k=0 and h=0 are the defaults of an omitted argument, None those of matl, temp
KArgs == {PyInt(0), PyInt(200), PyInt(-1), PyStr("abc"), PyStr(""), PyStr("200"),
          PyNone}
HArgs == {PyInt(0), PyInt(50), PyInt(-5), PyStr("abc"), PyStr(""), PyNone}
MatlArgs == {PyNone, PyStr("Copper"), PyStr("Steel"), PyStr("Brass"),
             PyStr("Unobtainium")}
TempArgs == {PyInt(50 * i) : i \in 0..MaxTemp} \cup {PyNone, PyStr("abc"), PyStr("")}

CoeffCalls ==
    {[call |-> "HxCoefficient", k |-> k, h |-> h, matl |-> m, temp |-> t] :
        k \in KArgs, h \in HArgs, m \in MatlArgs, t \in TempArgs}

NoObj == PyNone
NoCall == [call |-> "none"]

\* c = HxCoefficient(k, h, matl, temp): c is bound only when the call returns
NewHxCoefficient ==
    /\ inp.call = "HxCoefficient"
    /\ LET r == HxCoefficient__init__(inp.k, inp.h, inp.matl, inp.temp)
       IN  /\ last' = [call |-> "HxCoefficient", exc |-> r.exc, ret |-> r.obj]
           /\ hc' = IF r.exc = "None" THEN r.obj ELSE hc
    /\ UNCHANGED <<inp, hs>>

InitCoeff ==
    /\ inp \in CoeffCalls
    /\ hc = NoObj
    /\ hs = NoObj
    /\ last = NoCall

NextCoeff == NewHxCoefficient

SpecCoeff == InitCoeff /\ [][NextCoeff]_vars
(***************************************************************************)
(* heat_sink.py: objects.  An object is its attribute dictionary; a method *)
(* outcome is [exc, self, ret]: the exception, the receiver's attributes   *)
(* when the call ended, and the value returned.                            *)
(***************************************************************************)
HasAttr(self, name) == name \in DOMAIN self
SetAttr(self, name, val) == (name :> val) @@ self

MRaise(e, self) == [exc |-> e, self |-> self, ret |-> PyNone]
MOk(self) == [exc |-> "None", self |-> self, ret |-> PyNone]
MRet(self, val) == [exc |-> "None", self |-> self, ret |-> val]

\* statement sequencing: r is the outcome of the statements so far; F continues
\* on the receiver they left, unless they raised
Then(r, F(_)) == Let(r, LAMBDA v : IF v.exc # "None" THEN v ELSE F(v.self))

\* a reference to the coefficient object the caller holds
RefHc == [t |-> "ref", name |-> "hc"]
\* the attributes of the object an argument denotes (none on a non-object)
AttrsOf(x) ==
    CASE x.t = "ref" /\ hc.t = "object" -> hc.v
      [] x.t = "object" -> x.v
      [] OTHER -> [none |-> PyNone]

\* Python binds a bound method's receiver to the first parameter: the call
\* succeeds only when the explicit arguments fill the remaining parameters
BoundCallBinds(params, args) == Len(args) + 1 = Len(params)
\* the builtin all(iterable) takes exactly one argument
BuiltinAllBinds(args) == Len(args) = 1

\* x >= 2 and x < y on numbers
Ge2(x) == IsNum(x) /\ IsQ(x.v) /\ RLe(<<2, 1>>, x.v.q)
Lt(x, y) == IsNum(x) /\ IsNum(y) /\ IsQ(x.v) /\ IsQ(y.v) /\ RLt(x.v.q, y.v.q)

\* arithmetic on Python numbers: int op int is an int, anything else a float
NumType(x, y) == IF x.t = "int" /\ y.t = "int" THEN "int" ELSE "float"
NumMul(x, y) == Let2(x, y, LAMBDA a, b : [t |-> NumType(a, b), v |-> TMul(a.v, b.v)])
NumSub(x, y) == Let2(x, y, LAMBDA a, b : [t |-> NumType(a, b), v |-> TSub(a.v, b.v)])
NumAdd(x, y) == Let2(x, y, LAMBDA a, b : [t |-> NumType(a, b), v |-> TAdd(a.v, b.v)])
NumDiv(x, y) == Let2(x, y, LAMBDA a, b : PyFloatT(TDiv(a.v, b.v)))

(***************************************************************************)
(* heat_sink.py: the property setters of HeatSink and StraightHeatSink.    *)
(***************************************************************************)
\* HeatSink.n_fins (setter)
n_fins_setter(self, n_fins) ==
    IF ~IsNum(n_fins) THEN MRaise("TypeError", self)
    ELSE IF Ge2(n_fins) /\ n_fins.t = "int"
         THEN MOk(SetAttr(self, "_n_fins", n_fins))
         ELSE IF n_fins.t # "int" THEN MRaise("TypeError", self)
              ELSE MRaise("ValueError", self)

\* the shape of the fin_len, fin_wid, fin_thk and base_h setters
PositiveSetter(self, attr, val) ==
    IF ~IsNum(val) THEN MRaise("TypeError", self)
    ELSE IF Gt0(val) THEN MOk(SetAttr(self, attr, val))
         ELSE MRaise("ValueError", self)

\* HeatSink.fin_len (setter)
fin_len_setter(self, fin_length) == PositiveSetter(self, "_fin_len", fin_length)
\* StraightHeatSink.fin_wid (setter)
fin_wid_setter(self, fin_width) == PositiveSetter(self, "_fin_wid", fin_width)
\* StraightHeatSink.fin_thk (setter)
fin_thk_setter(self, fin_thickness) == PositiveSetter(self, "_fin_thk", fin_thickness)
\* StraightHeatSink.base_h (setter)
base_h_setter(self, base_height) == PositiveSetter(self, "_base_h", base_height)

\* StraightHeatSink.hx_coeff (setter)
hx_coeff_setter(self, hx_coeff) ==
    LET c == AttrsOf(hx_coeff)
        attr_check == HasAttr(c, "h") /\ HasAttr(c, "k")
        attr_val_check == /\ IsNum(c.h) /\ IsNum(c.k)
                          /\ Gt0(c.h) /\ Gt0(c.k)
    IN  IF ~attr_check THEN MRaise("TypeError", self)
        ELSE IF ~BuiltinAllBinds(<<"attr_check", "attr_val_check">>)
             THEN MRaise("TypeError", self)
             ELSE IF attr_check /\ attr_val_check
                  THEN MOk(SetAttr(self, "_hx_coeff", hx_coeff))
                  ELSE MRaise("ValueError", self)

\* self._MIN_GAP = 0.0001
MIN_GAP == PyFloat(1, 10000)

\* StraightHeatSink.gap (setter): the first branch builds err_msg from
\* self.base_h, self.n_fins and self.fin_thk and falls off the end
gap_setter(self, gap_dist) ==
    IF ~IsNum(gap_dist) THEN MRaise("TypeError", self)
    ELSE IF Le0(gap_dist)
         THEN IF {"_base_h", "_n_fins", "_fin_thk"} \subseteq DOMAIN self
              THEN MOk(self)
              ELSE MRaise("AttributeError", self)
         ELSE IF ~HasAttr(self, "_MIN_GAP") THEN MRaise("AttributeError", self)
              ELSE IF Lt(gap_dist, self["_MIN_GAP"]) THEN MRaise("ValueError", self)
                   ELSE MOk(SetAttr(self, "_gap", gap_dist))

\* ( base_h - n_fins * fin_thk ) / (n_fins - 1)
GapOf(n_fins, fin_thk, base_h) ==
    NumDiv(NumSub(base_h, NumMul(n_fins, fin_thk)), NumSub(n_fins, PyInt(1)))

\* StraightHeatSink.__init__, its last three lines
StraightInitGap(self, n_fins, fin_thk, base_h) ==
    Let(GapOf(n_fins, fin_thk, base_h),
        LAMBDA g : gap_setter(SetAttr(self, "_MIN_GAP", MIN_GAP), g))

\* HeatSink.__init__
HeatSink__init__(self, hx_coeff, n_fins, fin_len) ==
    Then(hx_coeff_setter(self, hx_coeff), LAMBDA s1 :
    Then(n_fins_setter(s1, n_fins), LAMBDA s2 :
    fin_len_setter(s2, fin_len)))

\* StraightHeatSink.__init__
StraightHeatSink__init__(self, hx_coeff, n_fins, fin_len, fin_wid, fin_thk, base_h) ==
    Then(MOk(SetAttr(self, "_fin_type", PyList(<<"Straight", "">>))),
         LAMBDA s0 :
    Then(HeatSink__init__(s0, hx_coeff, n_fins, fin_len), LAMBDA s1 :
    Then(fin_wid_setter(s1, fin_wid), LAMBDA s2 :
    Then(fin_thk_setter(s2, fin_thk), LAMBDA s3 :
    Then(base_h_setter(s3, base_h), LAMBDA s4 :
    StraightInitGap(s4, n_fins, fin_thk, base_h))))))

(***************************************************************************)
(* heat_sink.py: the derived parameters.  A calculation's outcome is       *)
(* Raise(e) or Return(value).                                              *)
(***************************************************************************)
Needs(self, names) == names \subseteq DOMAIN self
CoeffOf(self) == AttrsOf(self["_hx_coeff"])
Two == PyInt(2)
One == PyInt(1)

\* the methods a heat sink class defines or inherits
Methods(cls) ==
    {"_calc_fin_param_m", "_calc_fin_area_total", "_calc_base_area_nonfin",
     "_calc_fin_effectiveness", "_calc_overall_fin_effectiveness",
     "_calc_fin_efficiency", "_calc_fin_area_single", "_calc_derived_params",
     "_calc_q_fin_single", "_calc_q_fin_total", "_calc_q_heat_sink", "hx"}
    \cup (IF cls = "StrRectHeatSink" THEN {"_calc_fin_characteristic_length"} ELSE {})
    \cup (IF cls = "StrParaHeatSink" THEN {"_calc_param_c"} ELSE {})

ClassOf(self) == self["__class__"].s

\* StraightHeatSink._calc_fin_param_m
_calc_fin_param_m(self) ==
    IF ~Needs(self, {"_hx_coeff", "_fin_thk"}) THEN Raise("AttributeError")
    ELSE Let(CoeffOf(self), LAMBDA c :
         IF ~(HasAttr(c, "h") /\ HasAttr(c, "k")) THEN Raise("AttributeError")
         ELSE Return(PyFloatT(TSqrt(NumDiv(NumMul(Two, c.h),
                                           NumMul(c.k, self["_fin_thk"])).v))))

\* StraightHeatSink._calc_fin_area_total
_calc_fin_area_total(self) ==
    IF ~Needs(self, {"fin_area_single", "_n_fins"}) THEN Raise("AttributeError")
    ELSE Return(NumMul(self["fin_area_single"], self["_n_fins"]))

\* StraightHeatSink._calc_base_area_nonfin
_calc_base_area_nonfin(self) ==
    IF ~Needs(self, {"base_area_tot", "_n_fins", "_fin_thk", "_fin_wid"})
    THEN Raise("AttributeError")
    ELSE Return(NumSub(self["base_area_tot"],
                       NumMul(NumMul(self["_n_fins"], self["_fin_thk"]),
                              self["_fin_wid"])))

\* StraightHeatSink._calc_fin_effectiveness
_calc_fin_effectiveness(self) ==
    IF ~Needs(self, {"_fin_wid", "_fin_thk", "fin_efficiency", "fin_area_total"})
    THEN Raise("AttributeError")
    ELSE Return(NumDiv(NumMul(self["fin_efficiency"], self["fin_area_total"]),
                       NumMul(self["_fin_wid"], self["_fin_thk"])))

\* StraightHeatSink._calc_overall_fin_effectiveness
_calc_overall_fin_effectiveness(self) ==
    IF ~Needs(self, {"base_area_nonfin", "fin_efficiency", "fin_area_total",
                     "base_area_tot"})
    THEN Raise("AttributeError")
    ELSE IF ~IsNum(self["base_area_nonfin"]) \/ ~IsNum(self["base_area_tot"])
         THEN Raise("TypeError")
         ELSE Return(NumDiv(NumAdd(self["base_area_nonfin"],
                                   NumMul(self["fin_efficiency"],
                                          self["fin_area_total"])),
                            self["base_area_tot"]))

\* StrRectHeatSink._calc_fin_characteristic_length
_calc_fin_characteristic_length(self) ==
    IF ~Needs(self, {"_fin_len", "_fin_thk"}) THEN Raise("AttributeError")
    ELSE Return(NumAdd(self["_fin_len"], NumDiv(self["_fin_thk"], Two)))

\* StrParaHeatSink._calc_param_c
_calc_param_c(self) ==
    IF ~Needs(self, {"_fin_len", "_fin_thk"}) THEN Raise("AttributeError")
    ELSE Let(NumDiv(self["_fin_thk"], self["_fin_len"]),
             LAMBDA r : Return(PyFloatT(TSqrt(NumAdd(One, NumMul(r, r)).v))))

\* StrRectHeatSink._calc_fin_efficiency
Rect_calc_fin_efficiency(self) ==
    IF ~Needs(self, {"fin_param_m", "fin_len_char"}) THEN Raise("AttributeError")
    ELSE Let(NumMul(self["fin_param_m"], self["fin_len_char"]),
             LAMBDA mLc : Return(NumDiv(PyFloatT(TTanh(mLc.v)), mLc)))

\* an efficiency without the factor 1/(m*L)
Tri_calc_fin_efficiency_no_factor(self) ==
    IF ~Needs(self, {"fin_param_m", "_fin_len"}) THEN Raise("AttributeError")
    ELSE Let(NumMul(NumMul(Two, self["fin_param_m"]), self["_fin_len"]),
             LAMBDA x : Return(NumDiv(PyFloatT(TIv(1, x.v)), PyFloatT(TIv(0, x.v)))))

\* StrTriHeatSink._calc_fin_efficiency
Tri_calc_fin_efficiency(self) ==
    IF ~Needs(self, {"fin_param_m", "_fin_len"}) THEN Raise("AttributeError")
    ELSE Let2(NumMul(self["fin_param_m"], self["_fin_len"]),
              NumMul(NumMul(Two, self["fin_param_m"]), self["_fin_len"]),
              LAMBDA mL, x :
                  Return(NumMul(NumDiv(One, mL),
                                NumDiv(PyFloatT(TIv(1, x.v)), PyFloatT(TIv(0, x.v))))))

\* StrParaHeatSink._calc_fin_efficiency
Para_calc_fin_efficiency(self) ==
    IF ~Needs(self, {"fin_param_m", "_fin_len"}) THEN Raise("AttributeError")
    ELSE Let(NumMul(NumMul(Two, self["fin_param_m"]), self["_fin_len"]),
             LAMBDA x : Return(NumDiv(Two,
                                      NumAdd(One, PyFloatT(TSqrt(NumAdd(x, One).v))))))

\* StrRectHeatSink._calc_fin_area_single
Rect_calc_fin_area_single(self) ==
    IF ~Needs(self, {"_fin_wid", "fin_len_char"}) THEN Raise("AttributeError")
    ELSE Return(NumMul(NumMul(Two, self["_fin_wid"]), self["fin_len_char"]))

\* StrTriHeatSink._calc_fin_area_single
Tri_calc_fin_area_single(self) ==
    IF ~Needs(self, {"_fin_wid", "_fin_len", "_fin_thk"}) THEN Raise("AttributeError")
    ELSE Let2(self["_fin_len"], NumDiv(self["_fin_thk"], Two),
              LAMBDA L, half :
                  Return(NumMul(NumMul(Two, self["_fin_wid"]),
                                PyFloatT(TSqrt(NumAdd(NumMul(L, L),
                                                      NumMul(half, half)).v)))))

\* StrParaHeatSink._calc_fin_area_single
Para_calc_fin_area_single(self) ==
    IF ~Needs(self, {"_fin_wid", "_fin_len", "_fin_thk", "param_c"})
    THEN Raise("AttributeError")
    ELSE LET L == self["_fin_len"]
             t == self["_fin_thk"]
             C == self["param_c"]
         IN  Return(NumMul(NumMul(self["_fin_wid"], L),
                           NumAdd(C, NumMul(NumDiv(L, t),
                                            PyFloatT(TLn(NumAdd(NumDiv(t, L), C).v))))))

\* the class's _calc_fin_efficiency and _calc_fin_area_single
_calc_fin_efficiency(self) ==
    CASE ClassOf(self) = "StrRectHeatSink" -> Rect_calc_fin_efficiency(self)
      [] ClassOf(self) = "StrTriHeatSink" -> Tri_calc_fin_efficiency(self)
      [] OTHER -> Para_calc_fin_efficiency(self)

_calc_fin_area_single(self) ==
    CASE ClassOf(self) = "StrRectHeatSink" -> Rect_calc_fin_area_single(self)
      [] ClassOf(self) = "StrTriHeatSink" -> Tri_calc_fin_area_single(self)
      [] OTHER -> Para_calc_fin_area_single(self)

\* self._calc_base_area_tot(): the attribute lookup fails when no class of the
\* hierarchy defines the method; base_h * fin_wid is what the docstrings state
_calc_base_area_tot(self) ==
    IF "_calc_base_area_tot" \notin Methods(ClassOf(self)) THEN Raise("AttributeError")
    ELSE IF ~Needs(self, {"_base_h", "_fin_wid"}) THEN Raise("AttributeError")
    ELSE Return(NumMul(self["_base_h"], self["_fin_wid"]))

\* self.<attr> = <the outcome r of the right-hand side>
Assign(self, attr, r) ==
    Let(r, LAMBDA v : IF v.exc # "None" THEN MRaise(v.exc, self)
                      ELSE MOk(SetAttr(self, attr, v.obj)))

\* the assignments every _calc_derived_params ends with, from fin_efficiency on
DerivedTail(self) ==
    Then(Assign(self, "fin_efficiency", _calc_fin_efficiency(self)), LAMBDA s1 :
    Then(Assign(s1, "fin_area_single", _calc_fin_area_single(s1)), LAMBDA s2 :
    Then(Assign(s2, "fin_area_total", _calc_fin_area_total(s2)), LAMBDA s3 :
    Then(Assign(s3, "base_area_tot", _calc_base_area_tot(s3)), LAMBDA s4 :
    \* self.base_area_nonfin = self._calc_base_area_nonfin (not called)
    Then(MOk(SetAttr(s4, "base_area_nonfin", PyMethod("_calc_base_area_nonfin"))),
         LAMBDA s5 :
    Then(Assign(s5, "fin_effectiveness", _calc_fin_effectiveness(s5)), LAMBDA s6 :
    Assign(s6, "overall_fin_effectiveness", _calc_overall_fin_effectiveness(s6))))))))

\* a _calc_derived_params that uses fin_len_char before it is assigned
Rect_calc_derived_params_late_char(self) ==
    Then(Assign(self, "fin_param_m", _calc_fin_param_m(self)), LAMBDA s1 :
    Then(DerivedTail(s1), LAMBDA s2 :
    Assign(s2, "fin_len_char", _calc_fin_characteristic_length(s2))))

\* StrRectHeatSink._calc_derived_params
Rect_calc_derived_params(self) ==
    Then(Assign(self, "fin_len_char", _calc_fin_characteristic_length(self)), LAMBDA s1 :
    Then(Assign(s1, "fin_param_m", _calc_fin_param_m(s1)), LAMBDA s2 :
    DerivedTail(s2)))

\* a triangular _calc_derived_params that also keeps a characteristic length
Tri_calc_derived_params_with_char(self) ==
    Then(Assign(self, "fin_len_char", _calc_fin_characteristic_length(self)), LAMBDA s1 :
    Then(Assign(s1, "fin_param_m", _calc_fin_param_m(s1)), LAMBDA s2 :
    DerivedTail(s2)))

\* StrTriHeatSink._calc_derived_params
Tri_calc_derived_params(self) ==
    Then(Assign(self, "fin_param_m", _calc_fin_param_m(self)), LAMBDA s1 :
    DerivedTail(s1))

\* StrParaHeatSink._calc_derived_params
Para_calc_derived_params(self) ==
    Then(Assign(self, "fin_param_m", _calc_fin_param_m(self)), LAMBDA s1 :
    Then(Assign(s1, "param_c", _calc_param_c(s1)), LAMBDA s2 :
    DerivedTail(s2)))

_calc_derived_params(self) ==
    CASE ClassOf(self) = "StrRectHeatSink" -> Rect_calc_derived_params(self)
      [] ClassOf(self) = "StrTriHeatSink" -> Tri_calc_derived_params(self)
      [] OTHER -> Para_calc_derived_params(self)

(***************************************************************************)
(* hx_equations.py: HeatTransferMixin (the parameters after self).         *)
(***************************************************************************)
QFinSingleParams ==
    <<"self", "temp_base", "temp_env", "hx_coeff", "fin_efficiency", "fin_area_single">>
QFinTotalParams ==
    <<"self", "temp_base", "temp_env", "hx_coeff", "fin_efficiency", "fin_area_total">>
QHeatSinkParams ==
    <<"self", "temp_base", "temp_env", "hx_coeff", "fin_efficiency", "fin_area_total",
      "base_area_nonfin">>

AllNum(xs) == \A i \in 1..Len(xs) : IsNum(xs[i])
CoeffH(hx_coeff) == AttrsOf(hx_coeff).h

\* HeatTransferMixin._calc_q_fin_single
_calc_q_fin_single(temp_base, temp_env, hx_coeff, fin_efficiency, fin_area_single) ==
    IF ~AllNum(<<temp_base, temp_env, CoeffH(hx_coeff), fin_efficiency, fin_area_single>>)
    THEN Raise("TypeError")
    ELSE Let(NumSub(temp_base, temp_env), LAMBDA delta_t :
         Return(NumMul(NumMul(NumMul(fin_efficiency, CoeffH(hx_coeff)),
                              fin_area_single), delta_t)))

\* HeatTransferMixin._calc_q_fin_total
_calc_q_fin_total(temp_base, temp_env, hx_coeff, fin_efficiency, fin_area_total) ==
    IF ~AllNum(<<temp_base, temp_env, CoeffH(hx_coeff), fin_efficiency, fin_area_total>>)
    THEN Raise("TypeError")
    ELSE Let(NumSub(temp_base, temp_env), LAMBDA delta_t :
         Return(NumMul(NumMul(NumMul(fin_efficiency, CoeffH(hx_coeff)),
                              fin_area_total), delta_t)))

\* HeatTransferMixin._calc_q_heat_sink
_calc_q_heat_sink(temp_base, temp_env, hx_coeff, fin_efficiency, fin_area_total, base_area_nonfin) ==
    IF ~AllNum(<<temp_base, temp_env, CoeffH(hx_coeff), fin_efficiency, fin_area_total,
                 base_area_nonfin>>)
    THEN Raise("TypeError")
    ELSE Let2(NumSub(temp_base, temp_env),
              NumAdd(base_area_nonfin, NumMul(fin_efficiency, fin_area_total)),
              LAMBDA delta_t, area_effective :
                  Return(NumMul(NumMul(CoeffH(hx_coeff), area_effective), delta_t)))

(***************************************************************************)
(* heat_sink.py: HeatSink.hx                                               *)
(***************************************************************************)

\* the explicit arguments hx passes to the three bound methods
HxQFinSingleArgs ==
    <<"self", "temp_base", "temp_env", "self.hx_coeff", "self.fin_efficiency",
      "self.fin_area_single">>
HxQFinTotalArgs ==
    <<"self", "temp_base", "temp_env", "self.hx_coeff", "self.fin_efficiency",
      "self.fin_area_total">>
HxQHeatSinkArgs ==
    <<"self", "temp_base", "temp_env", "self.hx_coeff", "self.fin_efficiency",
      "self.fin_area_total", "self.base_area_nonfin">>

\* q_fin_single = self._calc_q_fin_single(self, temp_base, temp_env, ...)
HxQFinSingle(self, temp_base, temp_env) ==
    IF ~Needs(self, {"_hx_coeff", "fin_efficiency", "fin_area_single"})
    THEN Raise("AttributeError")
    ELSE IF ~BoundCallBinds(QFinSingleParams, HxQFinSingleArgs) THEN Raise("TypeError")
    ELSE _calc_q_fin_single(temp_base, temp_env, self["_hx_coeff"],
                            self["fin_efficiency"], self["fin_area_single"])

\* q_fin_total = self._calc_q_fin_total(self, temp_base, temp_env, ...)
HxQFinTotal(self, temp_base, temp_env) ==
    IF ~Needs(self, {"_hx_coeff", "fin_efficiency", "fin_area_total"})
    THEN Raise("AttributeError")
    ELSE IF ~BoundCallBinds(QFinTotalParams, HxQFinTotalArgs) THEN Raise("TypeError")
    ELSE _calc_q_fin_total(temp_base, temp_env, self["_hx_coeff"],
                           self["fin_efficiency"], self["fin_area_total"])

\* q_heat_sink = self._calc_q_heat_sink(self, temp_base, temp_env, ...)
HxQHeatSink(self, temp_base, temp_env) ==
    IF ~Needs(self, {"_hx_coeff", "fin_efficiency", "fin_area_total", "base_area_nonfin"})
    THEN Raise("AttributeError")
    ELSE IF ~BoundCallBinds(QHeatSinkParams, HxQHeatSinkArgs) THEN Raise("TypeError")
    ELSE _calc_q_heat_sink(temp_base, temp_env, self["_hx_coeff"],
                           self["fin_efficiency"], self["fin_area_total"],
                           self["base_area_nonfin"])

\* HeatSink.hx
hx(self, temp_base, temp_env, rtype) ==
    Let(HxQFinSingle(self, temp_base, temp_env), LAMBDA q_fin_single :
    IF q_fin_single.exc # "None" THEN MRaise(q_fin_single.exc, self) ELSE
    Let(HxQFinTotal(self, temp_base, temp_env), LAMBDA q_fin_total :
    IF q_fin_total.exc # "None" THEN MRaise(q_fin_total.exc, self) ELSE
    Let(HxQHeatSink(self, temp_base, temp_env), LAMBDA q_heat_sink :
    IF q_heat_sink.exc # "None" THEN MRaise(q_heat_sink.exc, self)
    ELSE IF rtype = PyType("list")
         THEN MRet(self, PyList(<<q_fin_single.obj, q_fin_total.obj, q_heat_sink.obj>>))
    ELSE IF rtype = PyType("dict")
         THEN MRet(self, PyDict([q_fin_single |-> q_fin_single.obj,
                                 q_fin_total |-> q_fin_total.obj,
                                 q_heat_sink |-> q_heat_sink.obj]))
    ELSE MRaise("ValueError", self))))

(***************************************************************************)
(* heat_sink.py: the constructors of the three concrete classes.           *)
(***************************************************************************)
StraightInitParams ==
    <<"self", "hx_coeff", "n_fins", "fin_len", "fin_wid", "fin_thk", "base_h">>
\* super().__init__(hx_coeff, fin_type, n_fins, fin_len, fin_wid, fin_thk, base_h)
RectSuperInitArgs ==
    <<"hx_coeff", "fin_type", "n_fins", "fin_len", "fin_wid", "fin_thk", "base_h">>
\* super().__init__(hx_coeff, n_fins, fin_len, fin_wid, fin_thk, base_h)
TriSuperInitArgs == <<"hx_coeff", "n_fins", "fin_len", "fin_wid", "fin_thk", "base_h">>

\* object.__new__(cls)
NewSelf(cls) == [x \in {"__class__"} |-> PyStr(cls)]

\* self._fin_type[1] = name
SetFinType(self, name) ==
    SetAttr(self, "_fin_type", PyList(<<self["_fin_type"].items[1], name>>))

\* StrRectHeatSink.__init__; a.fin_type is Absent when the caller passes none
StrRectHeatSink__init__(self, a) ==
    IF a.fin_type = Absent THEN MRaise("TypeError", self)
    ELSE IF ~BoundCallBinds(StraightInitParams, RectSuperInitArgs)
    THEN MRaise("TypeError", self)
    ELSE Then(StraightHeatSink__init__(self, a.hx_coeff, a.n_fins, a.fin_len,
                                       a.fin_wid, a.fin_thk, a.base_h), LAMBDA s1 :
         Then(MOk(SetFinType(s1, "Rectangular Fin")), LAMBDA s2 :
         _calc_derived_params(s2)))

\* StrTriHeatSink.__init__
StrTriHeatSink__init__(self, a) ==
    IF ~BoundCallBinds(StraightInitParams, TriSuperInitArgs)
    THEN MRaise("TypeError", self)
    ELSE Then(StraightHeatSink__init__(self, a.hx_coeff, a.n_fins, a.fin_len,
                                       a.fin_wid, a.fin_thk, a.base_h), LAMBDA s1 :
         Then(MOk(SetFinType(s1, "Triangular Fin")), LAMBDA s2 :
         Then(MOk(SetAttr(s2, "_profile_formula",
                          PyStr("y = (fin_thk/2)*(1 - x/fin_len)"))), LAMBDA s3 :
         _calc_derived_params(s3))))

\* StrParaHeatSink.__init__
StrParaHeatSink__init__(self, a) ==
    IF ~BoundCallBinds(StraightInitParams, TriSuperInitArgs)
    THEN MRaise("TypeError", self)
    ELSE Then(StraightHeatSink__init__(self, a.hx_coeff, a.n_fins, a.fin_len,
                                       a.fin_wid, a.fin_thk, a.base_h), LAMBDA s1 :
         Then(MOk(SetFinType(s1, "Parabolic Fin")), LAMBDA s2 :
         Then(MOk(SetAttr(s2, "_profile_formula",
                          PyStr("(fin_thk/2)*(1-x/fin_len)^2"))), LAMBDA s3 :
         _calc_derived_params(s3))))

\* cls(**a): the instance when __init__ returns, the exception otherwise
Construct(cls, a) ==
    Let(CASE cls = "StrRectHeatSink" -> StrRectHeatSink__init__(NewSelf(cls), a)
          [] cls = "StrTriHeatSink" -> StrTriHeatSink__init__(NewSelf(cls), a)
          [] OTHER -> StrParaHeatSink__init__(NewSelf(cls), a),
        LAMBDA r : IF r.exc = "None" THEN Return(PyObj(cls, r.self)) ELSE Raise(r.exc))

(***************************************************************************)
(* Constructing a heat sink: the arguments and the three calls.            *)
(***************************************************************************)
\* one length step is 0.0001 m, the value of _MIN_GAP
Step(i) == PyFloat(i, 10000)

\* the coefficient objects a caller holds before building a heat sink
CoeffObjs ==
    {HxCoefficient__init__(PyInt(200), PyInt(50), PyNone, PyNone).obj,
     HxCoefficient__init__(PyInt(0), PyInt(50), PyStr("Copper"), PyInt(100)).obj}

\* an object that has h but no k
DuckCoeff == PyObj("object", [h |-> PyInt(50)])
HxCoeffArgs == {RefHc, DuckCoeff, PyNone}
NFinsArgs == {PyInt(i) : i \in 0..MaxNFins} \cup {PyFloat(2, 1), PyNone}
LenArgs == {Step(i) : i \in {-1, 0, 1, MaxLen}}
FinTypeArgs == {Absent, PyStr("Rectangular Fin")}
Classes == {"StrRectHeatSink", "StrTriHeatSink", "StrParaHeatSink"}

HeatSinkCalls ==
    {[call |-> cls, hx_coeff |-> c, fin_type |-> ft, n_fins |-> n, fin_len |-> l,
      fin_wid |-> w, fin_thk |-> t, base_h |-> b] :
        cls \in Classes, c \in HxCoeffArgs, ft \in FinTypeArgs, n \in NFinsArgs,
        l \in {Step(MaxLen)}, w \in {Step(0), Step(MaxLen)}, t \in LenArgs, b \in LenArgs}

\* hs = cls(...): hs is bound only when the call returns
Constructed(cls, r) ==
    /\ last' = [call |-> cls, exc |-> r.exc, ret |-> r.obj]
    /\ hs' = IF r.exc = "None" THEN r.obj ELSE hs
    /\ UNCHANGED <<inp, hc>>

\* hs = StrRectHeatSink(hx_coeff, [fin_type,] n_fins, fin_len, fin_wid, fin_thk, base_h)
NewStrRectHeatSink ==
    /\ inp.call = "StrRectHeatSink"
    /\ Constructed("StrRectHeatSink", Construct("StrRectHeatSink", inp))
\* hs = StrTriHeatSink(hx_coeff, n_fins, fin_len, fin_wid, fin_thk, base_h)
NewStrTriHeatSink ==
    /\ inp.call = "StrTriHeatSink"
    /\ Constructed("StrTriHeatSink", Construct("StrTriHeatSink", inp))
\* hs = StrParaHeatSink(hx_coeff, n_fins, fin_len, fin_wid, fin_thk, base_h)
NewStrParaHeatSink ==
    /\ inp.call = "StrParaHeatSink"
    /\ Constructed("StrParaHeatSink", Construct("StrParaHeatSink", inp))

Init ==
    /\ hc \in CoeffObjs
    /\ inp \in {c \in HeatSinkCalls : c.call = "StrRectHeatSink" \/ c.fin_type = Absent}
    /\ hs = NoObj
    /\ last = NoCall

Next == NewStrRectHeatSink \/ NewStrTriHeatSink \/ NewStrParaHeatSink

Spec == Init /\ [][Next]_vars

(***************************************************************************)
(* The methods of a heat sink, each applied to a receiver.  A receiver is  *)
(* an object at one of the stages of construction: its inputs stored       *)
(* (StraightHeatSink.__init__ up to base_h), its gap set (the end of       *)
(* StraightHeatSink.__init__), its derived parameters as                   *)
(* _calc_derived_params left them, and its remaining derived attributes    *)
(* assigned from the class's own methods.                                  *)
(***************************************************************************)
FinTypeName(cls) ==
    CASE cls = "StrRectHeatSink" -> "Rectangular Fin"
      [] cls = "StrTriHeatSink" -> "Triangular Fin"
      [] OTHER -> "Parabolic Fin"

\* the attributes after StraightHeatSink.__init__ stored its six inputs
InputsStored(cls, n, l, w, t, b) ==
    ("_fin_type" :> PyList(<<"Straight", "">>))
    @@ ("_hx_coeff" :> RefHc) @@ ("_n_fins" :> PyInt(n)) @@ ("_fin_len" :> Step(l))
    @@ ("_fin_wid" :> Step(w)) @@ ("_fin_thk" :> Step(t)) @@ ("_base_h" :> Step(b))
    @@ NewSelf(cls)

\* ... after its last three lines
GapSet(self) == StraightInitGap(self, self["_n_fins"], self["_fin_thk"], self["_base_h"])

\* ... after the subclass __init__ ran _calc_derived_params
DerivedRun(self) ==
    Let(GapSet(self).self,
        LAMBDA s1 : _calc_derived_params(SetFinType(s1, FinTypeName(ClassOf(s1)))).self)

\* ... with base_area_tot, base_area_nonfin and the two effectiveness values
\* assigned from base_h * fin_wid and the class's methods
DerivedAll(self) ==
    Let(DerivedRun(self), LAMBDA s0 :
    Let(SetAttr(s0, "base_area_tot", NumMul(s0["_base_h"], s0["_fin_wid"])), LAMBDA s1 :
    Let(Assign(s1, "base_area_nonfin", _calc_base_area_nonfin(s1)).self, LAMBDA s2 :
    Let(Assign(s2, "fin_effectiveness", _calc_fin_effectiveness(s2)).self, LAMBDA s3 :
    Assign(s3, "overall_fin_effectiveness", _calc_overall_fin_effectiveness(s3)).self))))

Geometries ==
    [n : 2..MaxNFins, l : {MaxLen}, w : {MaxLen}, t : {1, 2}, b : {MaxLen - 1, MaxLen}]

Stored == {InputsStored(cls, g.n, g.l, g.w, g.t, g.b) : cls \in Classes, g \in Geometries}
Built == {s \in Stored : GapSet(s).exc = "None"}

Receivers ==
    Stored \cup {GapSet(s).self : s \in Built} \cup {DerivedRun(s) : s \in Built}
    \cup {DerivedAll(s) : s \in Built}

SetterArgs == {Step(i) : i \in {-1, 0, 1, MaxLen + 1}} \cup {PyInt(0), PyInt(1), PyNone}
GapArgs == {PyFloat(i, 20000) : i \in -1..MaxLen} \cup {PyInt(0)}
Temps == {PyInt(0), PyInt(25), PyInt(100)}
RTypes == {PyType("list"), PyType("dict"), PyType("tuple")}
Setters == {"n_fins", "fin_len", "fin_wid", "fin_thk", "base_h"}

\* further objects assigned to hx_coeff: h and k positive, k zero, h a string
OtherCoeffArgs ==
    {PyObj("object", [h |-> PyInt(50), k |-> PyInt(200)]),
     PyObj("object", [h |-> PyInt(50), k |-> PyInt(0)]),
     PyObj("object", [h |-> PyStr("a"), k |-> PyInt(200)])}

\* values assigned to the attributes k and h of the coefficient object
CoeffAttrArgs == {PyInt(100), PyInt(0), PyInt(-1)}

MethodCalls ==
    {[call |-> "n_fins", v |-> x] : x \in NFinsArgs}
    \cup {[call |-> s, v |-> x] : s \in Setters \ {"n_fins"}, x \in SetterArgs}
    \cup {[call |-> "gap", v |-> x] : x \in GapArgs}
    \cup {[call |-> "hx_coeff", v |-> x] : x \in HxCoeffArgs \cup OtherCoeffArgs}
    \cup {[call |-> c] : c \in {"init_gap", "_calc_derived_params"}}
    \cup {[call |-> c, v |-> x] : c \in {"hc.k", "hc.h"}, x \in CoeffAttrArgs}
    \cup {[call |-> "hx", temp_base |-> tb, temp_env |-> te, rtype |-> rt] :
            tb \in Temps, te \in Temps, rt \in RTypes}

\* the receiver's class and attributes after a call, and the call's outcome
Called(call, r) ==
    /\ hs' = PyObj(hs.cls, r.self)
    /\ last' = [call |-> call, exc |-> r.exc, ret |-> r.ret]
    /\ UNCHANGED <<inp, hc>>

\* hs.n_fins = v
Set_n_fins == inp.call = "n_fins" /\ Called("n_fins", n_fins_setter(hs.v, inp.v))
\* hs.fin_len = v
Set_fin_len == inp.call = "fin_len" /\ Called("fin_len", fin_len_setter(hs.v, inp.v))
\* hs.fin_wid = v
Set_fin_wid == inp.call = "fin_wid" /\ Called("fin_wid", fin_wid_setter(hs.v, inp.v))
\* hs.fin_thk = v
Set_fin_thk == inp.call = "fin_thk" /\ Called("fin_thk", fin_thk_setter(hs.v, inp.v))
\* hs.base_h = v
Set_base_h == inp.call = "base_h" /\ Called("base_h", base_h_setter(hs.v, inp.v))
\* hs.gap = v
Set_gap ==
    inp.call = "gap" /\ HasAttr(hs.v, "_MIN_GAP") /\ Called("gap", gap_setter(hs.v, inp.v))
\* hs.hx_coeff = v
Set_hx_coeff ==
    inp.call = "hx_coeff" /\ Called("hx_coeff", hx_coeff_setter(hs.v, inp.v))
\* the last three lines of StraightHeatSink.__init__, on stored inputs
InitGap ==
    /\ inp.call = "init_gap" /\ ~HasAttr(hs.v, "_MIN_GAP")
    /\ Called("init_gap", GapSet(hs.v))
\* hs._calc_derived_params()
CalcDerivedParams ==
    /\ inp.call = "_calc_derived_params" /\ HasAttr(hs.v, "_MIN_GAP")
    /\ Called("_calc_derived_params", _calc_derived_params(hs.v))
\* an hx that records the base temperature in the coefficient object
HxWritingCoeff ==
    /\ inp.call = "hx"
    /\ LET r == hx(hs.v, inp.temp_base, inp.temp_env, inp.rtype)
       IN  /\ hs' = PyObj(hs.cls, r.self)
           /\ last' = [call |-> "hx", exc |-> r.exc, ret |-> r.ret]
    /\ hc' = PyObj(hc.cls, SetAttr(hc.v, "temp", inp.temp_base))
    /\ UNCHANGED inp

\* hs.hx(temp_base, temp_env, rtype)
Hx ==
    /\ inp.call = "hx"
    /\ Called("hx", hx(hs.v, inp.temp_base, inp.temp_env, inp.rtype))

\* hc.<attr> = v: k and h are plain instance attributes (no property, no
\* __setattr__, no __slots__), so the assignment stores any value
CoeffAssigned(attr) ==
    /\ hc' = PyObj(hc.cls, SetAttr(hc.v, attr, inp.v))
    /\ last' = [call |-> inp.call, exc |-> "None", ret |-> PyNone]
    /\ UNCHANGED <<inp, hs>>

\* hc.k = v
Set_coeff_k == inp.call = "hc.k" /\ CoeffAssigned("k")
\* hc.h = v
Set_coeff_h == inp.call = "hc.h" /\ CoeffAssigned("h")

InitMethods ==
    /\ hc \in CoeffObjs
    /\ hs \in {PyObj(ClassOf(s), s) : s \in Receivers}
    /\ inp \in MethodCalls
    /\ last = NoCall

NextMethods ==
    \/ Set_n_fins \/ Set_fin_len \/ Set_fin_wid \/ Set_fin_thk \/ Set_base_h
    \/ Set_gap \/ Set_hx_coeff \/ InitGap \/ CalcDerivedParams \/ Hx
    \/ Set_coeff_k \/ Set_coeff_h

SpecMethods == InitMethods /\ [][NextMethods]_vars

(***************************************************************************)
(* heat_sink.py: suggest_fin_length.  Its two string arguments are lowered *)
(* and looked up in lists, so they are sequences of characters here.       *)
(***************************************************************************)
PyChars(cs) == [t |-> "str", chars |-> cs]
UpperCase ==
    <<"A", "B", "C", "D", "E", "F", "G", "H", "I", "J", "K", "L", "M",
      "N", "O", "P", "Q", "R", "S", "T", "U", "V", "W", "X", "Y", "Z">>
LowerCase ==
    <<"a", "b", "c", "d", "e", "f", "g", "h", "i", "j", "k", "l", "m",
      "n", "o", "p", "q", "r", "s", "t", "u", "v", "w", "x", "y", "z">>
Letters == 1..Len(UpperCase)
\* str.lower, str.upper on one character and str.lower on a string
lower_char(c) ==
    IF \E i \in Letters : UpperCase[i] = c
    THEN LowerCase[CHOOSE i \in Letters : UpperCase[i] = c] ELSE c
upper_char(c) ==
    IF \E i \in Letters : LowerCase[i] = c
    THEN UpperCase[CHOOSE i \in Letters : LowerCase[i] = c] ELSE c
lower(cs) == [i \in 1..Len(cs) |-> lower_char(cs[i])]
upper(cs) == [i \in 1..Len(cs) |-> upper_char(cs[i])]
\* ' '.join([a, b]) and str.capitalize of a lower-case word
Join(a, b) == a \o <<" ">> \o b
Capitalize(w) == <<upper_char(w[1])>> \o Tail(w)

straight == <<"s", "t", "r", "a", "i", "g", "h", "t">>
rectangular == <<"r", "e", "c", "t", "a", "n", "g", "u", "l", "a", "r">>
triangular == <<"t", "r", "i", "a", "n", "g", "u", "l", "a", "r">>
parabolic == <<"p", "a", "r", "a", "b", "o", "l", "i", "c">>
fin == <<"f", "i", "n">>
Shapes == {rectangular, triangular, parabolic}

\* the list tested at the head of suggest_fin_length
SupportedFinTypes == {Join(straight, s) : s \in Shapes}
\* the lists of the return_type dispatch
PandasNames ==
    {<<"d", "f">>, <<"p", "d">>, <<"d", "a", "t", "a", "f", "r", "a", "m", "e">>,
     <<"p", "a", "n", "d", "a", "s">>}
NumpyNames ==
    {<<"a", "r", "r">>, <<"n", "p">>, <<"a", "r", "r", "a", "y">>,
     <<"n", "u", "m", "p", "y">>}
ListNames == {<<"l">>, <<"l", "i", "s", "t">>}

coeffs ==
    <<PyFloat(1, 10), PyFloat(1, 5), PyFloat(1, 2), PyFloat(1, 1), PyFloat(3, 2),
      PyFloat(2, 1), PyFloat(5, 2), PyFloat(3, 1), PyFloat(4, 1), PyFloat(5, 1)>>
Columns == <<"Fin Length", "Q Ratio", "mL">>
\* pd.DataFrame(rows, columns=...)
DataFrame(rows, columns) == [t |-> "DataFrame", rows |-> rows, columns |-> columns]

\* a loop body that appends the row without its coefficient
SuggestionRowNoCoeff(param_m, coeff) ==
    Let(NumDiv(param_m, coeff), LAMBDA fin_len :
        PyList(<<fin_len, PyFloatT(TTanh(NumMul(param_m, fin_len).v))>>))

\* one pass of the loop body: [fin_len, hx_ratio, coeff]
SuggestionRow(param_m, coeff) ==
    Let(NumDiv(param_m, coeff), LAMBDA fin_len :
        PyList(<<fin_len, PyFloatT(TTanh(NumMul(param_m, fin_len).v)), coeff>>))
length_suggestions(param_m) ==
    [i \in 1..Len(coeffs) |-> SuggestionRow(param_m, coeffs[i])]

\* the outcome of the function: exception, returned object, printed objects
Outcome(exc, obj, out) == [exc |-> exc, obj |-> obj, out |-> out]

\* sqrt((2 * hx_coeff.h) / (hx_coeff.k * fin_thk))
SuggestParamM(c, fin_thk) ==
    Let2(NumMul(Two, c.h), NumMul(c.k, fin_thk), LAMBDA num, den :
         IF den.v = Q(0, 1) THEN Raise("ZeroDivisionError")
         ELSE Let(NumDiv(num, den), LAMBDA x :
              IF IsQ(x.v) /\ RLt(x.v.q, <<0, 1>>) THEN Raise("ValueError")
              ELSE Return(PyFloatT(TSqrt(x.v)))))

\* the part of suggest_fin_length after the loop
SuggestReturn(rows, return_type, verbose) ==
    IF verbose \/ lower(return_type.chars) \in PandasNames
    THEN Let(DataFrame(rows, Columns), LAMBDA df :
         Outcome("None",
                 IF lower(return_type.chars) \in PandasNames THEN df ELSE PyNone,
                 IF verbose THEN <<df>> ELSE <<>>))
    ELSE IF lower(return_type.chars) \in NumpyNames THEN Outcome("None", PyNone, <<>>)
    ELSE IF lower(return_type.chars) \in ListNames
    THEN Outcome("None", PyList(rows), <<>>)
    ELSE IF return_type.chars = <<>> THEN Outcome("None", PyNone, <<>>)
    ELSE Outcome("ValueError", PyNone, <<>>)

\* suggest_fin_length(hx_coeff, fin_type, fin_thk, return_type='df', verbose)
suggest_fin_length(hx_coeff, fin_type, fin_thk, return_type, verbose) ==
    IF lower(fin_type.chars) \notin SupportedFinTypes
    THEN Outcome("NotImplementedError", PyNone, <<>>)
    ELSE Let(SuggestParamM(hx_coeff.v, fin_thk), LAMBDA m :
         IF m.exc # "None" THEN Outcome(m.exc, PyNone, <<>>)
         ELSE SuggestReturn(length_suggestions(m.obj),
                            IF return_type = Absent THEN PyChars(<<"d", "f">>)
                            ELSE return_type,
                            verbose))

\* the strings the docstring lists, the strings the fin_type property of the
\* three classes returns, the strings of the accepted list, and others
DocFinTypes == {Join(Join(straight, s), fin) : s \in Shapes}
PropertyFinTypes ==
    {Join(Capitalize(straight), Join(Capitalize(s), Capitalize(fin))) : s \in Shapes}
FinTypeStrings ==
    DocFinTypes \cup PropertyFinTypes \cup SupportedFinTypes
    \cup {upper(Join(straight, parabolic)), Join(<<"p", "i", "n">>, fin), <<>>}
ReturnTypeStrings ==
    PandasNames \cup NumpyNames \cup ListNames
    \cup {<<"D", "F">>, <<"N", "p">>, <<"L", "i", "s", "t">>, <<"x">>,
          <<"t", "u", "p", "l", "e">>, <<>>}
ThkArgs == {Step(0), Step(2), Step(20)}
SuggestCalls ==
    {[call |-> "suggest_fin_length", fin_type |-> PyChars(f), fin_thk |-> t,
      return_type |-> r, verbose |-> v] :
        f \in FinTypeStrings, t \in ThkArgs,
        r \in {PyChars(x) : x \in ReturnTypeStrings} \cup {Absent},
        v \in BOOLEAN}

\* suggest_fin_length(hc, fin_type, fin_thk, return_type, verbose)
SuggestFinLength ==
    /\ inp.call = "suggest_fin_length"
    /\ LET r == suggest_fin_length(hc, inp.fin_type, inp.fin_thk, inp.return_type,
                                   inp.verbose)
       IN  last' = [call |-> inp.call, exc |-> r.exc, ret |-> r.obj, out |-> r.out]
    /\ UNCHANGED <<inp, hc, hs>>

InitSuggest ==
    /\ hc \in CoeffObjs
    /\ hs = NoObj
    /\ inp \in SuggestCalls
    /\ last = NoCall

NextSuggest == SuggestFinLength

SpecSuggest == InitSuggest /\ [][NextSuggest]_vars

(***************************************************************************)
(* heat_sink.py: the three _calc_fin_efficiency methods as functions of    *)
(* fin_param_m and the fin length, applied to objects that hold them.      *)
(***************************************************************************)
\* fin_param_m and the lengths of the receivers, in eighths
ParamMArgs == {PyFloat(1, 1), PyFloat(3, 2), PyFloat(2, 1)}
EffLenArgs == {PyFloat(i, 8) : i \in 1..4}
EffThkArgs == {PyFloat(1, 8), PyFloat(1, 4)}

\* an object of class cls with fin_param_m, fin_len, fin_thk and, as line 656
\* leaves it, fin_len_char
EffReceiver(cls, m, l, t) ==
    Let(("fin_param_m" :> m) @@ ("_fin_len" :> l) @@ ("_fin_thk" :> t) @@ NewSelf(cls),
        LAMBDA s : SetAttr(s, "fin_len_char", _calc_fin_characteristic_length(s).obj))
EffReceivers(cls) ==
    {EffReceiver(cls, m, l, t) : m \in ParamMArgs, l \in EffLenArgs, t \in EffThkArgs}

\* self.fin_efficiency = self._calc_fin_efficiency()
CalcFinEfficiency ==
    /\ inp.call = "_calc_fin_efficiency"
    /\ Called("_calc_fin_efficiency",
              Assign(hs.v, "fin_efficiency", _calc_fin_efficiency(hs.v)))

InitEfficiency ==
    /\ hc = NoObj
    /\ hs \in UNION {{PyObj(cls, s) : s \in EffReceivers(cls)} : cls \in Classes}
    /\ inp = [call |-> "_calc_fin_efficiency"]
    /\ last = NoCall

NextEfficiency == CalcFinEfficiency

SpecEfficiency == InitEfficiency /\ [][NextEfficiency]_vars

(***************************************************************************)
(* hxc_designer.py: the input-card loop of the command line run.  hs holds *)
(* the position and the locals of the main block, inp.stdin the lines that *)
(* input() has still to read.                                              *)
(***************************************************************************)
MaxInputs == 3

InputState == {"Pending", "Invalid_Card", "Invalid_Path", "Valid_Card", "Create_Card"}

Paths == {"", "!N", "missing.card", "sink.card"}
\* os.path.exists
ExistingPaths == {"sink.card"}

import_card(fpath) == Raise("NotImplementedError")

create_card == Raise("NotImplementedError")

check_card(card_obj) == Return([t |-> "bool", v |-> FALSE])

Main(path_input) ==
    [t |-> "main", pc |-> "while", input_status |-> "Pending",
     path_input |-> path_input, card |-> Absent]

\* input_status = status; print(...); args["path_input"] = input()
Prompt(call, status, card) ==
    IF inp.stdin = <<>>
    THEN /\ hs' = [hs EXCEPT !.input_status = status, !.card = card, !.pc = "raised"]
         /\ last' = [call |-> call, exc |-> "EOFError"]
         /\ UNCHANGED <<inp, hc>>
    ELSE /\ hs' = [hs EXCEPT !.input_status = status, !.card = card,
                             !.path_input = Head(inp.stdin), !.pc = "if_new"]
         /\ inp' = [inp EXCEPT !.stdin = Tail(@)]
         /\ last' = [call |-> call, exc |-> "None"]
         /\ UNCHANGED hc

\* while input_status not in (Valid_Card, Create_Card):
WhileTest ==
    /\ hs.pc = "while"
    /\ hs' = [hs EXCEPT !.pc = IF hs.input_status \in {"Valid_Card", "Create_Card"}
                               THEN "export" ELSE "if_exists"]
    /\ last' = [call |-> "while", exc |-> "None"]
    /\ UNCHANGED <<inp, hc>>

\* if not os.path.exists(args["path_input"]): ...
InvalidPath ==
    /\ hs.pc = "if_exists"
    /\ hs.path_input \notin ExistingPaths
    /\ Prompt("invalid_path", "Invalid_Path", hs.card)

\* else: try: import_card, check_card; except: ...
ImportAndCheck ==
    /\ hs.pc = "if_exists"
    /\ hs.path_input \in ExistingPaths
    /\ LET r == IF hs.input_status # "Create_Card" THEN import_card(hs.path_input)
                ELSE Return(hs.card)
           card == IF r.exc = "None" THEN r.obj ELSE hs.card
           c == IF r.exc # "None" THEN r
                ELSE IF card = Absent THEN Raise("NameError") ELSE check_card(card)
       IN  IF c.exc = "None" /\ c.obj.v
           THEN /\ hs' = [hs EXCEPT !.input_status = "Valid_Card", !.card = card,
                                    !.pc = "if_new"]
                /\ last' = [call |-> "import_card", exc |-> "None"]
                /\ UNCHANGED <<inp, hc>>
           ELSE Prompt("import_card", "Invalid_Card", card)

\* if args["path_input"] == "!N": card = create_card()
CreateTest ==
    /\ hs.pc = "if_new"
    /\ LET r == IF hs.path_input = "!N" THEN create_card ELSE Return(hs.card)
       IN  /\ hs' = IF r.exc # "None" THEN [hs EXCEPT !.pc = "raised"]
                    ELSE [hs EXCEPT !.card = r.obj, !.pc = "while"]
           /\ last' = [call |-> "create_card", exc |-> r.exc]
    /\ UNCHANGED <<inp, hc>>

InitCli ==
    /\ hc = NoObj
    /\ hs \in {Main(p) : p \in Paths}
    /\ inp \in {[call |-> "main", stdin |-> s] :
                  s \in UNION {[1..n -> Paths] : n \in 0..MaxInputs}}
    /\ last = NoCall

NextCli == WhileTest \/ InvalidPath \/ ImportAndCheck \/ CreateTest

SpecCli == InitCli /\ [][NextCli]_vars

(***************************************************************************)
(* hx_coefficients.py: matl_prop.k_val applied to drawn arguments.         *)
(***************************************************************************)
\* temperatures in steps of 25 degrees, from below to above every table
KValTemps == {PyFloat(25 * i, 1) : i \in -2..(2 * MaxTemp + 2)}

\* matl_prop.k_val(matl, temp)
KVal ==
    /\ inp.call = "k_val"
    /\ last.call = "none"
    /\ LET r == k_val(inp.matl, inp.temp)
       IN  last' = [call |-> "k_val", exc |-> r.exc, ret |-> r.obj]
    /\ UNCHANGED <<inp, hc, hs>>

InitKVal ==
    /\ inp \in {[call |-> "k_val", matl |-> m, temp |-> t] :
                  m \in MatlArgs \ {PyNone}, t \in KValTemps}
    /\ hc = NoObj
    /\ hs = NoObj
    /\ last = NoCall

NextKVal == KVal

SpecKVal == InitKVal /\ [][NextKVal]_vars

(***************************************************************************)
(* Claims about HxCoefficient, checked under SpecCoeff.                    *)
(***************************************************************************)
CoeffCalled == last.call = "HxCoefficient"
\* a value float() cannot turn into a number (None is an omitted argument)
NonNumeric(x) == x.t = "str" /\ x.s \notin NumericStrings
PositiveNumber(x) == CanFloat(x) /\ Gt0(ToFloat(x))
IsInstance(x) == x.t = "object"

\* C6: HxCoefficient construction fails with an error, and returns no
\* instance, when neither a positive k nor a (matl, temp) pair is supplied,
\* when h is absent or <= 0, or when k, h or temp is non-numeric.
C6_BadInputsRejected ==
    (/\ CoeffCalled
     /\ \/ ~PositiveNumber(inp.k) /\ ~(inp.matl # PyNone /\ inp.temp # PyNone)
        \/ inp.h \in {PyInt(0), PyNone}
        \/ IsNum(inp.h) /\ Le0(inp.h)
        \/ NonNumeric(inp.k) \/ NonNumeric(inp.h) \/ NonNumeric(inp.temp))
    => (last.exc # "None" /\ ~IsInstance(last.ret) /\ hc = NoObj)

\* C7: every successfully constructed HxCoefficient has k > 0 and h > 0,
\* whichever path resolved k (an explicit k or the material lookup).
C7_CoeffPositive ==
    IsInstance(hc) =>
        /\ "k" \in DOMAIN hc.v /\ IsNum(hc.v.k) /\ Gt0(hc.v.k)
        /\ "h" \in DOMAIN hc.v /\ IsNum(hc.v.h) /\ Gt0(hc.v.h)

\* C8: for every h > 0, every material of the table and every numeric
\* temperature (0 degrees included), HxCoefficient with k omitted and
\* (matl, temp) given succeeds and sets k to matl_prop.k_val(matl, temp).
C8_LookupPathSucceeds ==
    (/\ CoeffCalled
     /\ inp.k = PyInt(0)
     /\ IsNum(inp.h) /\ Gt0(inp.h)
     /\ inp.matl.t = "str" /\ inp.matl.s \in matl_names
     /\ IsNum(inp.temp))
    => /\ last.exc = "None"
       /\ IsInstance(hc)
       /\ "k" \in DOMAIN hc.v
       /\ hc.v.k = k_val(inp.matl, ToFloat(inp.temp)).obj

(***************************************************************************)
(* Properties of heat sink construction (Spec).                            *)
(***************************************************************************)
ConstructorCalled == last.call \in Classes
ValidCoeff(x) ==
    /\ x = RefHc /\ IsInstance(hc)
    /\ "k" \in DOMAIN hc.v /\ Gt0(hc.v.k) /\ "h" \in DOMAIN hc.v /\ Gt0(hc.v.h)
ValidNFins(x) == x.t = "int" /\ Ge2(x)
ValidLengths == Gt0(inp.fin_len) /\ Gt0(inp.fin_wid) /\ Gt0(inp.fin_thk) /\ Gt0(inp.base_h)
DerivedAttrs ==
    {"fin_param_m", "fin_efficiency", "fin_area_single", "fin_area_total",
     "base_area_tot", "base_area_nonfin", "fin_effectiveness",
     "overall_fin_effectiveness"}
AllDerived(self) == \A a \in DerivedAttrs : HasAttr(self, a) /\ IsNum(self[a])

\* C1: a constructor call with the six keyword arguments, a coefficient with
\* k > 0 and h > 0, an int n_fins >= 2, positive lengths and a gap above the
\* minimum returns an instance without raising, and the instance has every
\* derived attribute set to a number.
C1_ConstructorsSucceed ==
    (/\ ConstructorCalled /\ inp.fin_type = Absent
     /\ ValidCoeff(inp.hx_coeff) /\ ValidNFins(inp.n_fins) /\ ValidLengths
     /\ Lt(MIN_GAP, GapOf(inp.n_fins, inp.fin_thk, inp.base_h)))
    => (last.exc = "None" /\ IsInstance(hs) /\ AllDerived(hs.v))

\* C4: a constructor call with a valid coefficient is rejected with ValueError
\* when n_fins is an int below 2 and with TypeError when n_fins is not an int
\* (a whole-valued float included); an instance only ever stores an int >= 2.
C4_NFinsValidated ==
    /\ (ConstructorCalled /\ inp.fin_type = Absent /\ ValidCoeff(inp.hx_coeff))
       => /\ (inp.n_fins.t = "int" /\ ~Ge2(inp.n_fins)) => last.exc = "ValueError"
          /\ inp.n_fins.t # "int" => last.exc = "TypeError"
    /\ IsInstance(hs) => ValidNFins(hs.v["_n_fins"])

\* C5: a constructor call with a valid coefficient and a valid n_fins fails
\* with ValueError when fin_len, fin_wid, fin_thk or base_h is <= 0; an
\* instance has all four strictly positive.
C5_NonPositiveLengthRejected ==
    /\ (/\ ConstructorCalled /\ inp.fin_type = Absent
        /\ ValidCoeff(inp.hx_coeff) /\ ValidNFins(inp.n_fins) /\ ~ValidLengths)
       => (last.exc = "ValueError" /\ hs = NoObj)
    /\ IsInstance(hs) => \A a \in {"_fin_len", "_fin_wid", "_fin_thk", "_base_h"} :
                             Gt0(hs.v[a])

(***************************************************************************)
(* Properties of the methods (SpecMethods).                                *)
(***************************************************************************)
StoredGap == GapOf(hs.v["_n_fins"], hs.v["_fin_thk"], hs.v["_base_h"])

\* C2: when the gap computed at the end of StraightHeatSink.__init__ from the
\* stored n_fins, fin_thk and base_h is zero or negative, the constructor
\* raises there.
C2_NonPositiveGapFails ==
    (last.call = "init_gap" /\ Le0(StoredGap)) => last.exc # "None"

\* C3: when the end of StraightHeatSink.__init__ does not raise, the object
\* has a gap equal to (base_h - n_fins*fin_thk)/(n_fins - 1), and that gap is
\* strictly above the minimum gap 0.0001.
C3_GapAboveMinimum ==
    (last.call = "init_gap" /\ last.exc = "None")
    => /\ HasAttr(hs.v, "_gap")
       /\ hs.v["_gap"] = StoredGap
       /\ Lt(MIN_GAP, hs.v["_gap"])

HxCalled == last.call = "hx"
\* a receiver with every input and derived attribute a constructed heat sink has
Complete(self) ==
    /\ Needs(self, {"_hx_coeff", "_n_fins", "_fin_len", "_fin_wid", "_fin_thk",
                    "_base_h", "_gap"})
    /\ AllDerived(self)
Delta == NumSub(inp.temp_base, inp.temp_env)
H == hc.v.h
Eff == hs.v["fin_efficiency"]

\* C9: hx(temp_base, temp_env) on a complete heat sink returns, with
\* delta_t = temp_base - temp_env, the list of
\* fin_efficiency*h*fin_area_single*delta_t, fin_efficiency*h*fin_area_total*delta_t
\* and h*(base_area_nonfin + fin_efficiency*fin_area_total)*delta_t, in that order.
C9_HxFormulas ==
    (HxCalled /\ Complete(hs.v) /\ inp.rtype = PyType("list"))
    => /\ last.exc = "None"
       /\ last.ret =
            PyList(<<NumMul(NumMul(NumMul(Eff, H), hs.v["fin_area_single"]), Delta),
                     NumMul(NumMul(NumMul(Eff, H), hs.v["fin_area_total"]), Delta),
                     NumMul(NumMul(H, NumAdd(hs.v["base_area_nonfin"],
                                             NumMul(Eff, hs.v["fin_area_total"]))),
                            Delta)>>)

\* C10: hx with numeric temperatures on a complete heat sink returns a
\* 3-element list when rtype is list, a dict with the keys q_fin_single,
\* q_fin_total, q_heat_sink when rtype is dict, and raises ValueError (and
\* nothing else) for any other rtype.
C10_HxNeverFailsOnValidSink ==
    (HxCalled /\ Complete(hs.v))
    => /\ inp.rtype = PyType("list")
          => (last.exc = "None" /\ last.ret.t = "list" /\ Len(last.ret.items) = 3)
       /\ inp.rtype = PyType("dict")
          => /\ last.exc = "None" /\ last.ret.t = "dict"
             /\ DOMAIN last.ret.d = {"q_fin_single", "q_fin_total", "q_heat_sink"}
       /\ inp.rtype \notin {PyType("list"), PyType("dict")} => last.exc = "ValueError"

\* C11: hx is a pure query: a call on a complete heat sink returns a result,
\* the same result as the call made before it with the same temperatures, and
\* changes no attribute of the heat sink or of its coefficient object.
C11_HxPureQuery ==
    [][(Hx /\ Complete(hs.v))
       => /\ last'.exc = "None"
          /\ HxCalled => last'.ret = last.ret
          /\ hs' = hs /\ hc' = hc]_vars

DerivedCalled == last.call = "_calc_derived_params"
FinBaseArea(self) == NumMul(NumMul(self["_n_fins"], self["_fin_thk"]), self["_fin_wid"])
TotalBaseArea(self) == NumMul(self["_base_h"], self["_fin_wid"])

\* C12: after _calc_derived_params has run on a heat sink, base_area_tot
\* equals base_h*fin_wid and base_area_nonfin is a number with
\* base_area_nonfin + n_fins*fin_thk*fin_wid = base_area_tot.
C12_AreaPartition ==
    DerivedCalled
    => /\ last.exc = "None"
       /\ HasAttr(hs.v, "base_area_tot")
       /\ hs.v["base_area_tot"].v = TotalBaseArea(hs.v).v
       /\ HasAttr(hs.v, "base_area_nonfin") /\ IsNum(hs.v["base_area_nonfin"])
       /\ NumAdd(hs.v["base_area_nonfin"], FinBaseArea(hs.v)).v = hs.v["base_area_tot"].v

\* C13: when the fins occupy more than the total base
\* (n_fins*fin_thk*fin_wid > base_h*fin_wid), the end of
\* StraightHeatSink.__init__ raises, so no heat sink has base_area_nonfin < 0.
C13_FinsFitBase ==
    (last.call = "init_gap" /\ Lt(TotalBaseArea(hs.v), FinBaseArea(hs.v)))
    => last.exc # "None"

\* an input of the heat sink, or k or h of its coefficient, has just been
\* assigned a valid value
InputAssigned ==
    /\ last.call \in {"n_fins", "fin_len", "fin_wid", "fin_thk", "base_h",
                      "hx_coeff", "hc.k", "hc.h"}
    /\ last.exc = "None"
    /\ last.call \in {"hc.k", "hc.h"} => Gt0(inp.v)

\* C14: whenever a heat sink has all its derived attributes, after any
\* assignment through a setter or to the coefficient's k or h, gap equals
\* (base_h - n_fins*fin_thk)/(n_fins - 1) and every other derived attribute
\* equals its formula evaluated on the current inputs.
C14_DerivedFresh ==
    (Complete(hs.v) /\ InputAssigned)
    => /\ hs.v["_gap"] = StoredGap
       /\ \A a \in DerivedAttrs : hs.v[a] = DerivedAll(hs.v)[a]

\* C15: a constructed HxCoefficient is immutable: no step of the public
\* interface changes its k or its h, and both stay greater than zero.
C15_CoeffImmutable ==
    [][/\ hc'.v.k = hc.v.k /\ hc'.v.h = hc.v.h
       /\ Gt0(hc'.v.k) /\ Gt0(hc'.v.h)]_vars

SuggestCalled == last.call = "suggest_fin_length"
\* the tables a call delivered: the returned list or DataFrame, the printed one
RowsOf(x) == IF x.t = "list" THEN x.items ELSE x.rows
Produced ==
    (IF last.ret.t \in {"list", "DataFrame"} THEN {RowsOf(last.ret)} ELSE {})
    \cup {last.out[i].rows : i \in DOMAIN last.out}
\* m = sqrt(2h / (k * fin_thk)) of the call
M == PyFloatT(TSqrt(TDiv(TMul(Q(2, 1), hc.v.h.v), TMul(hc.v.k.v, inp.fin_thk.v))))
TargetML ==
    <<Q(1, 10), Q(1, 5), Q(1, 2), Q(1, 1), Q(3, 2), Q(2, 1), Q(5, 2), Q(3, 1),
      Q(4, 1), Q(5, 1)>>

\* C16: every table a successful call of suggest_fin_length delivers has
\* exactly ten rows, row i being a list of three numbers whose third is the
\* i-th of mL = 0.1, 0.2, 0.5, 1.0, 1.5, 2.0, 2.5, 3.0, 4.0, 5.0 and whose
\* second is the Q ratio tanh(m * first) of its first taken as a fin length;
\* a DataFrame names the columns Fin Length, Q Ratio, mL in that order.
C16_TenRowsInOrder ==
    (SuggestCalled /\ last.exc = "None")
    => /\ \A rows \in Produced :
            /\ Len(rows) = 10
            /\ \A i \in 1..10 :
                 /\ rows[i].t = "list" /\ Len(rows[i].items) = 3
                 /\ rows[i].items[3] = [t |-> "float", v |-> TargetML[i]]
                 /\ rows[i].items[2].v = TTanh(NumMul(M, rows[i].items[1]).v)
       /\ last.ret.t = "DataFrame"
          => last.ret.columns = <<"Fin Length", "Q Ratio", "mL">>

C16_Witness ==
    /\ SuggestCalled /\ last.exc = "None"
    /\ last.ret.t = "list" /\ Len(last.ret.items) = 10
    /\ hc.v.k.v = Q(200, 1) /\ inp.fin_thk = Step(20)

\* C17: in every row of every table a successful call delivers, the mL value
\* (third) equals m times the fin length (first), m = sqrt(2h/(k*fin_thk)),
\* and the Q ratio (second) equals tanh of the mL value.
C17_RowsRelateLengthToML ==
    (SuggestCalled /\ last.exc = "None")
    => \A rows \in Produced : \A i \in DOMAIN rows :
          /\ NumMul(M, rows[i].items[1]).v = rows[i].items[3].v
          /\ rows[i].items[2].v = TTanh(rows[i].items[3].v)

\* the fin_type argument in lower case
LoweredFinType == lower(inp.fin_type.chars)
\* the documented fin types, which are the lowered fin_type property strings
DocumentedFinTypes ==
    {Join(Join(straight, s), fin) : s \in {rectangular, triangular, parabolic}}

\* C18: a call whose fin_type is, up to case, one of 'straight rectangular
\* fin', 'straight triangular fin', 'straight parabolic fin' is not refused as
\* an unsupported fin type, and a call with any other fin_type is.
C18_DocumentedFinTypesAccepted ==
    SuggestCalled
    => (last.exc = "NotImplementedError" <=> LoweredFinType \notin DocumentedFinTypes)

\* the return_type argument in lower case ('df' when the caller passes none)
LoweredReturnType ==
    IF inp.return_type = Absent THEN <<"d", "f">> ELSE lower(inp.return_type.chars)
\* the call got past the fin type test and the computation of m
RowsComputed ==
    /\ SuggestCalled
    /\ LoweredFinType \in SupportedFinTypes
    /\ Gt0(inp.fin_thk)

\* C19: for verbose True and False alike, a call that computes its rows
\* returns a DataFrame for a return_type of the pandas family, a numpy array
\* for one of the numpy family, the list of rows for 'l' or 'list', and
\* raises ValueError for any other non-empty return_type.
C19_ReturnTypeDispatch ==
    RowsComputed
    => CASE LoweredReturnType \in {<<"d", "f">>, <<"p", "d">>,
                                     <<"d", "a", "t", "a", "f", "r", "a", "m", "e">>,
                                     <<"p", "a", "n", "d", "a", "s">>}
              -> last.exc = "None" /\ last.ret.t = "DataFrame"
         [] LoweredReturnType \in {<<"n", "p">>, <<"a", "r", "r">>,
                                     <<"a", "r", "r", "a", "y">>,
                                     <<"n", "u", "m", "p", "y">>}
              -> last.exc = "None" /\ last.ret.t = "ndarray"
         [] LoweredReturnType \in {<<"l">>, <<"l", "i", "s", "t">>}
              -> last.exc = "None" /\ last.ret.t = "list"
         [] LoweredReturnType = <<>> -> TRUE
         [] OTHER -> last.exc = "ValueError"

\* m = sqrt(2h / (k * fin_thk)) of the heat sink and its coefficient
ParamM ==
    PyFloatT(TSqrt(NumDiv(NumMul(Two, CoeffOf(hs.v).h),
                          NumMul(CoeffOf(hs.v).k, hs.v["_fin_thk"])).v))
TwoML == NumMul(NumMul(Two, ParamM), hs.v["_fin_len"])

\* C20: after _calc_derived_params has run on a StrParaHeatSink, its
\* fin_efficiency equals 2 / (1 + sqrt((2*m*fin_len)^2 + 1)).
C20_ParabolicEfficiency ==
    (DerivedCalled /\ hs.cls = "StrParaHeatSink" /\ HasAttr(hs.v, "fin_efficiency"))
    => hs.v["fin_efficiency"].v
       = NumDiv(Two, NumAdd(One, PyFloatT(TSqrt(NumAdd(NumMul(TwoML, TwoML), One).v)))).v

\* fin_len_char = fin_len + fin_thk/2 of the heat sink's current inputs
Lc == NumAdd(hs.v["_fin_len"], NumDiv(hs.v["_fin_thk"], Two))
MLc == NumMul(ParamM, Lc)

C22_OverallEffectiveness ==
    DerivedCalled
    => /\ Needs(hs.v, {"overall_fin_effectiveness", "base_area_nonfin",
                       "fin_efficiency", "fin_area_total", "base_area_tot"})
       /\ IsNum(hs.v["base_area_nonfin"])
       /\ hs.v["overall_fin_effectiveness"]
          = NumDiv(NumAdd(hs.v["base_area_nonfin"],
                          NumMul(hs.v["fin_efficiency"], hs.v["fin_area_total"])),
                   hs.v["base_area_tot"])
       /\ (hs.v["fin_efficiency"].v = Q(1, 1)
           /\ hs.v["fin_area_total"].v = FinBaseArea(hs.v).v)
          => hs.v["overall_fin_effectiveness"].v = Q(1, 1)

(***************************************************************************)
(* Enclosures: <<lo, hi>> in units of 1/10000 with lo <= x <= hi, for the  *)
(* positive terms the efficiency formulas build.  Every operation rounds   *)
(* lo down and hi up.                                                      *)
(***************************************************************************)
Ceil(a, b) == (a + b - 1) \div b
IvQ(q) == <<(q[1] * 10000) \div q[2], Ceil(q[1] * 10000, q[2])>>
IAdd(a, b) == <<a[1] + b[1], a[2] + b[2]>>
IMul(a, b) == <<(a[1] * b[1]) \div 10000, Ceil(a[2] * b[2], 10000)>>
IDiv(a, b) == <<(a[1] * 10000) \div b[2], Ceil(a[2] * 10000, b[1])>>
IDivInt(a, n) == <<a[1] \div n, Ceil(a[2], n)>>
ISqrtEnc(a) ==
    Let2(SqrtSearch(a[1] * 10000, 0, 46340), SqrtSearch(a[2] * 10000, 0, 46340),
         LAMBDA lo, hi : <<lo, IF hi * hi = a[2] * 10000 THEN hi ELSE hi + 1>>)

\* the k-th term of a series is the one before, times y, over Divisor(kind, k)
Divisor(kind, k) ==
    CASE kind = "exp" -> k
      [] kind = "I0" -> k * k
      [] kind = "I1" -> k * (k + 1)

\* sum of the series from term on, up to index n; the terms fall by more than
\* half from index k on, so what is left after the n-th is less than that term
RECURSIVE Series(_, _, _, _, _, _)
Series(kind, term, sum, y, k, n) ==
    IF k > n THEN <<sum[1], sum[2] + term[2] + 1>>
    ELSE Let(IDivInt(IMul(term, y), Divisor(kind, k)),
             LAMBDA next : Series(kind, next, IAdd(sum, next), y, k + 1, n))

\* e^y for 0 <= y <= 3
IExp(y) == Series("exp", <<10000, 10000>>, <<10000, 10000>>, y, 1, 16)
\* tanh(x) = 1 - 2/(e^(2x) + 1)
ITanh(x) ==
    Let(IDiv(<<20000, 20000>>, IAdd(IExp(IAdd(x, x)), <<10000, 10000>>)),
        LAMBDA r : <<10000 - r[2], 10000 - r[1]>>)
\* I_0(z) = sum (z/2)^(2k) / (k!)^2 and I_1(z) = sum (z/2)^(2k+1) / (k!(k+1)!)
IBessel(n, z) ==
    Let(IDivInt(z, 2), LAMBDA h :
        IF n = 0
        THEN Series("I0", <<10000, 10000>>, <<10000, 10000>>, IMul(h, h), 1, 8)
        ELSE Series("I1", h, h, IMul(h, h), 1, 8))

RECURSIVE Enclose(_)
Enclose(x) ==
    CASE x.op = "q" -> IvQ(x.q)
      [] x.op = "add" -> Let2(Enclose(x.a), Enclose(x.b), LAMBDA a, b : IAdd(a, b))
      [] x.op = "mul" -> Let2(Enclose(x.a), Enclose(x.b), LAMBDA a, b : IMul(a, b))
      [] x.op = "div" -> Let2(Enclose(x.a), Enclose(x.b), LAMBDA a, b : IDiv(a, b))
      [] x.op = "sqrt" -> Let(Enclose(x.a), LAMBDA a : ISqrtEnc(a))
      [] x.op = "tanh" -> Let(Enclose(x.a), LAMBDA a : ITanh(a))
      [] x.op = "iv" -> Let(Enclose(x.a), LAMBDA a : IBessel(x.n, a))

EfficiencyCalled == last.call = "_calc_fin_efficiency"
\* m*fin_len of an object (m*fin_len_char of a rectangular one)
MLOf(self) ==
    NumMul(self["fin_param_m"],
           IF ClassOf(self) = "StrRectHeatSink" THEN self["fin_len_char"]
           ELSE self["_fin_len"])
\* the enclosure of the efficiency the class's method computes for an object
EfficiencyOf(self) == Enclose(_calc_fin_efficiency(self).obj.v)

ZeroTerm(t) == IsQ(t) /\ t.q = <<0, 1>>
\* x is zero: the number 0, or a product whose last factor is 0
IsZero(x) == ZeroTerm(x.v) \/ (x.v.op = "mul" /\ ZeroTerm(x.v.b))
\* s = -t for rational numbers
NegTerm(s, t) == IsQ(s) /\ IsQ(t) /\ s.q = RSub(<<0, 1>>, t.q)
\* x = -y: opposite numbers, or products that differ in the sign of the last factor
Negates(x, y) ==
    \/ NegTerm(x.v, y.v)
    \/ x.v.op = "mul" /\ y.v.op = "mul" /\ x.v.a = y.v.a /\ NegTerm(x.v.b, y.v.b)

\* C24: hx(a, b) on a complete heat sink succeeds for every pair of
\* temperatures, a < b included; its three values are the negation of those of
\* hx(b, a), and they are zero when a = b.
C24_HxAntisymmetric ==
    (HxCalled /\ Complete(hs.v) /\ inp.rtype = PyType("list"))
    => /\ last.exc = "None"
       /\ inp.temp_base = inp.temp_env
          => \A i \in 1..3 : IsZero(last.ret.items[i])
       /\ Let(hx(hs.v, inp.temp_env, inp.temp_base, inp.rtype), LAMBDA r :
              /\ r.exc = "None"
              /\ \A i \in 1..3 : Negates(last.ret.items[i], r.ret.items[i]))

\* C25: assigning hx_coeff stores an object that has attributes h > 0 and
\* k > 0; an object lacking h or k raises TypeError; an object whose h or k is
\* not a number greater than 0 raises ValueError; a rejected assignment leaves
\* the heat sink as it was.
C25_HxCoeffSetter ==
    [][Set_hx_coeff
       => IF ~(HasAttr(AttrsOf(inp.v), "h") /\ HasAttr(AttrsOf(inp.v), "k"))
          THEN last'.exc = "TypeError" /\ hs' = hs
          ELSE IF Gt0(AttrsOf(inp.v).h) /\ Gt0(AttrsOf(inp.v).k)
          THEN last'.exc = "None" /\ hs'.v["_hx_coeff"] = inp.v
          ELSE last'.exc = "ValueError" /\ hs' = hs]_vars

C28_SettersRejectOrStore ==
    [][inp.call \in Setters \cup {"gap"}
       => /\ last'.exc # "None" => hs' = hs /\ hc' = hc
          /\ last'.exc = "None"
             => /\ HasAttr(hs'.v, "_" \o inp.call)
                /\ hs'.v["_" \o inp.call] = inp.v]_vars

\* C29: in the input-card loop, the input '!N' creates a card, sets
\* input_status to Create_Card and raises nothing; a path that does not exist
\* sets Invalid_Path and a card that fails import or check sets Invalid_Card,
\* and in both cases the next line of input is read as the new path.
C29_InputCardLoop ==
    [][/\ (hs.pc = "if_new" /\ hs.path_input = "!N")
          => /\ last'.exc = "None"
             /\ hs'.input_status = "Create_Card"
             /\ hs'.card # Absent
       /\ (hs.pc = "if_exists" /\ inp.stdin # <<>>)
          => /\ hs'.input_status = IF hs.path_input \in ExistingPaths
                                   THEN "Invalid_Card" ELSE "Invalid_Path"
             /\ hs'.path_input = Head(inp.stdin)
             /\ inp'.stdin = Tail(inp.stdin)
             /\ last'.exc = "None"]_vars

KValCalled == last.call = "k_val"

\* C30: for a material of the table, k_val returns the tabulated k at a
\* tabulated temperature, a value on the line through the two adjacent table
\* points for a temperature between them, a value on the line through the
\* first (last) two points for a temperature below (above) the table, and the
\* single entry's k for a material with one entry.
C30_KValInterpolates ==
    (KValCalled /\ inp.matl.s \in matl_names)
    => /\ last.exc = "None"
       /\ LET rows == MatlTable[inp.matl.s]
              n == Len(rows)
              temp == inp.temp.v.q
              k == last.ret.v.q
              OnLine(i) ==
                  RMul(RSub(k, <<rows[i][2], 1>>), <<rows[i + 1][1] - rows[i][1], 1>>)
                  = RMul(<<rows[i + 1][2] - rows[i][2], 1>>, RSub(temp, <<rows[i][1], 1>>))
          IN  /\ \A i \in 1..n : temp = <<rows[i][1], 1>> => k = <<rows[i][2], 1>>
              /\ \A i \in 1..(n - 1) :
                    (RLe(<<rows[i][1], 1>>, temp) /\ RLe(temp, <<rows[i + 1][1], 1>>))
                    => OnLine(i)
              /\ (n > 1 /\ RLt(temp, <<rows[1][1], 1>>)) => OnLine(1)
              /\ (n > 1 /\ RLt(<<rows[n][1], 1>>, temp)) => OnLine(n - 1)
              /\ n = 1 => k = <<rows[1][2], 1>>

C30_Witness ==
    /\ KValCalled /\ inp.matl = PyStr("Copper") /\ inp.temp = PyFloat(150, 1)
    /\ last.ret = PyFloat(775, 2)
====
